---------------------------- MODULE Spec2Model ----------------------------
(***************************************************************************)
(* Model of RuntimeTarget::installConsoleHandler                           *)
(* (jsinspector-modern/RuntimeTargetConsole.cpp).                          *)
(*                                                                         *)
(* Two threads are modelled.  The JS thread makes calls to the installed   *)
(* console methods; a call is split at the points where the inspector      *)
(* (owner) thread can interleave: Invoke, Lock, Body, Handoff, Forward,    *)
(* Return.  The inspector thread may drop its own reference to the         *)
(* RuntimeTarget and runs the tasks posted to selfExecutor.                *)
(***************************************************************************)
EXTENDS Integers, Sequences, FiniteSets, TLC

VARIABLES
    countMap,         \* ConsoleState::countMap   (label -> int)
    timerTable,       \* ConsoleState::timerTable (label -> start timestamp)
    body,             \* per installed method: state of the closure's `body`
    emptyAfterMove,   \* build: does moving a std::function leave it empty
    originalConsole,  \* "object" or "null": the captured originalConsole
    ownerHolds,       \* the inspector side still owns the RuntimeTarget
    executorQueue,    \* tasks posted to selfExecutor, each holding `self`
    destroyedOn,      \* "none", or the thread that destroyed the target
    pc,               \* position of the JS thread inside the current call
    cur,              \* the current call: method, args, timestampMs, body
    self,             \* the call's strong reference obtained by lock()
    delivered,        \* messages given to addConsoleMessage by this call
    forwarded,        \* calls made on the original console by this call
    lookup,           \* what originalConsole->getProperty found
    result,           \* how the host function ended
    calls,            \* number of calls started
    countCalls,       \* history: label -> count calls since its last countReset
    globalConsole,    \* runtime.global().console: "undefined" or an object
    heap,             \* the console objects: prototype and own properties
    installs,         \* installConsoleHandler callbacks that have run
    inner             \* the installation captured as the newer one's original

vars == <<countMap, timerTable, body, emptyAfterMove, originalConsole,
          ownerHolds, executorQueue, destroyedOn, pc, cur, self, delivered,
          forwarded, lookup, result, calls, countCalls, globalConsole, heap,
          installs, inner>>

----------------------------------------------------------------------------
(* Bounds of the model *)

\* calls made in the specifications of one family of methods
MaxCalls == 3

\* calls made in the specification over all installed methods
MaxCallsAll == 2

\* calls made in the specification of the methods sharing ConsoleState
MaxCallsFrame == 3

----------------------------------------------------------------------------
(* jsi::Value *)

Undefined == [t |-> "undefined", s |-> "", n |-> 0, b |-> FALSE]
Str(x) == [t |-> "string", s |-> x, n |-> 0, b |-> FALSE]
Num(k) == [t |-> "number", s |-> "", n |-> k, b |-> FALSE]
\* an object whose string conversion yields "[object Object]"
PlainObj == [t |-> "object", s |-> "[object Object]", n |-> 0, b |-> FALSE]
\* an object whose string conversion raises a JS error
BadObj == [t |-> "object", s |-> "", n |-> 0, b |-> TRUE]
Null == [t |-> "null", s |-> "", n |-> 0, b |-> FALSE]
Bool(x) == [t |-> "boolean", s |-> "", n |-> 0, b |-> x]
\* the number NaN
NaN == [t |-> "number", s |-> "", n |-> 0, b |-> TRUE]
Symbol == [t |-> "symbol", s |-> "", n |-> 0, b |-> FALSE]

isUndefined(v) == v.t = "undefined"
isString(v) == v.t = "string"

\* jsi::Value::toString: [ok |-> FALSE] when the conversion raises
toString(v) ==
    CASE v.t = "string" -> [ok |-> TRUE, str |-> v.s]
      [] v.t = "number" -> [ok |-> TRUE, str |-> IF v.b THEN "NaN" ELSE ToString(v.n)]
      [] v.t = "undefined" -> [ok |-> TRUE, str |-> "undefined"]
      [] v.t = "object" -> [ok |-> ~v.b, str |-> v.s]
      [] v.t = "null" -> [ok |-> TRUE, str |-> "null"]
      [] v.t = "boolean" -> [ok |-> TRUE, str |-> IF v.b THEN "true" ELSE "false"]
      [] v.t = "symbol" -> [ok |-> TRUE, str |-> "Symbol()"]

\* std::to_string(int)
IntToString(k) == ToString(k)

\* std::to_string(double), "%f": six decimals (timestamps are whole ms here)
DoubleToString(d) == ToString(d) \o ".000000"

----------------------------------------------------------------------------
(* Installed methods *)

kForwardingConsoleMethods ==
    [clear |-> "kClear", debug |-> "kDebug", dir |-> "kDir",
     dirxml |-> "kDirXML", error |-> "kError", group |-> "kStartGroup",
     groupCollapsed |-> "kStartGroupCollapsed", groupEnd |-> "kEndGroup",
     info |-> "kInfo", log |-> "kLog", table |-> "kTable",
     trace |-> "kTrace", warn |-> "kWarning"]

ForwardingMethods == DOMAIN kForwardingConsoleMethods

CountMethods == {"count", "countReset"}

TimerMethods == {"time", "timeEnd", "timeLog"}

Methods == ForwardingMethods \cup CountMethods \cup TimerMethods \cup {"assert"}

----------------------------------------------------------------------------
(* ConsoleState maps *)

EmptyMap == [x \in {} |-> 0]

Insert(map, k, v) == [x \in DOMAIN map \cup {k} |-> IF x = k THEN v ELSE map[x]]

Erase(map, k) == [x \in DOMAIN map \ {k} |-> map[x]]

\* std::vector<jsi::Value> holding one string
Message(ts, kind, args) == [timestampMs |-> ts, kind |-> kind, args |-> args]

\* outcome of a body: raised, or new state and the messages it delivered
Raised(cm, tt) == [threw |-> TRUE, countMap |-> cm, timerTable |-> tt, msgs |-> <<>>]
Done(cm, tt, msgs) == [threw |-> FALSE, countMap |-> cm, timerTable |-> tt, msgs |-> msgs]

\* the label of count, countReset, time, timeEnd, timeLog
ResolveLabel(args) ==
    IF Len(args) > 0 /\ ~isUndefined(args[1])
    THEN toString(args[1])
    ELSE [ok |-> TRUE, str |-> "default"]


----------------------------------------------------------------------------
(* The bodies given to installConsoleMethod *)

\* toBoolean (a number with b set stands for NaN)
toBoolean(v) ==
    CASE v.t \in {"undefined", "null"} -> FALSE
      [] v.t = "boolean" -> v.b
      [] v.t = "number" -> v.n # 0 /\ ~v.b
      [] v.t \in {"symbol", "object"} -> TRUE
      [] v.t = "string" -> v.s # ""

\* console.count
ConsoleCount(args, ts, cm, tt) ==
    LET l == ResolveLabel(args) IN
    IF ~l.ok THEN Raised(cm, tt)
    ELSE LET cm2 == IF l.str \in DOMAIN cm
                    THEN [cm EXCEPT ![l.str] = @ + 1]
                    ELSE Insert(cm, l.str, 1)
         IN Done(cm2, tt,
                 <<Message(ts, "kCount",
                           <<Str(l.str \o ": " \o IntToString(cm2[l.str]))>>)>>)

\* console.countReset
ConsoleCountReset(args, ts, cm, tt) ==
    LET l == ResolveLabel(args) IN
    IF ~l.ok THEN Raised(cm, tt)
    ELSE IF l.str \notin DOMAIN cm
         THEN Done(cm, tt,
                   <<Message(ts, "kWarning",
                             <<Str("Count for '" \o l.str \o "' does not exist")>>)>>)
         ELSE Done([cm EXCEPT ![l.str] = 0], tt, <<>>)

\* console.time
ConsoleTime(args, ts, cm, tt) ==
    LET l == ResolveLabel(args) IN
    IF ~l.ok THEN Raised(cm, tt)
    ELSE IF l.str \notin DOMAIN tt
         THEN Done(cm, Insert(tt, l.str, ts), <<>>)
         ELSE Done(cm, tt,
                   <<Message(ts, "kWarning",
                             <<Str("Timer '" \o l.str \o "' already exists")>>)>>)

\* mutant of ConsoleTimeEnd: ending a timer clears the whole timer table
ConsoleTimeEndClearsTable(args, ts, cm, tt) ==
    LET l == ResolveLabel(args) IN
    IF ~l.ok THEN Raised(cm, tt)
    ELSE IF l.str \notin DOMAIN tt
         THEN Done(cm, tt,
                   <<Message(ts, "kWarning",
                             <<Str("Timer '" \o l.str \o "' does not exist")>>)>>)
         ELSE Done(cm, EmptyMap,
                   <<Message(ts, "kTimeEnd",
                             <<Str(l.str \o ": " \o DoubleToString(ts - tt[l.str])
                                   \o " ms")>>)>>)

\* console.timeEnd
ConsoleTimeEnd(args, ts, cm, tt) ==
    LET l == ResolveLabel(args) IN
    IF ~l.ok THEN Raised(cm, tt)
    ELSE IF l.str \notin DOMAIN tt
         THEN Done(cm, tt,
                   <<Message(ts, "kWarning",
                             <<Str("Timer '" \o l.str \o "' does not exist")>>)>>)
         ELSE Done(cm, Erase(tt, l.str),
                   <<Message(ts, "kTimeEnd",
                             <<Str(l.str \o ": " \o DoubleToString(ts - tt[l.str])
                                   \o " ms")>>)>>)

\* mutant of ConsoleTimeLog: the message is given timeEnd's kind
ConsoleTimeLogAsTimeEnd(args, ts, cm, tt) ==
    LET l == ResolveLabel(args) IN
    IF ~l.ok THEN Raised(cm, tt)
    ELSE IF l.str \notin DOMAIN tt
         THEN Done(cm, tt,
                   <<Message(ts, "kWarning",
                             <<Str("Timer '" \o l.str \o "' does not exist")>>)>>)
         ELSE Done(cm, tt,
                   <<Message(ts, "kTimeEnd",
                             <<Str(l.str \o ": " \o DoubleToString(ts - tt[l.str])
                                   \o " ms")>>
                             \o (IF Len(args) > 1 THEN Tail(args) ELSE <<>>))>>)

\* console.timeLog
ConsoleTimeLog(args, ts, cm, tt) ==
    LET l == ResolveLabel(args) IN
    IF ~l.ok THEN Raised(cm, tt)
    ELSE IF l.str \notin DOMAIN tt
         THEN Done(cm, tt,
                   <<Message(ts, "kWarning",
                             <<Str("Timer '" \o l.str \o "' does not exist")>>)>>)
         ELSE Done(cm, tt,
                   <<Message(ts, "kLog",
                             <<Str(l.str \o ": " \o DoubleToString(ts - tt[l.str])
                                   \o " ms")>>
                             \o (IF Len(args) > 1 THEN Tail(args) ELSE <<>>))>>)

\* console.assert
ConsoleAssert(args, ts, cm, tt) ==
    IF Len(args) >= 1 /\ toBoolean(args[1]) THEN Done(cm, tt, <<>>)
    ELSE LET data == IF Len(args) > 1 THEN Tail(args) ELSE <<>>
             out == IF data = <<>> THEN <<Str("Assertion failed")>>
                    ELSE IF isString(Head(data))
                         THEN <<Str("Assertion failed: " \o Head(data).s)>>
                              \o Tail(data)
                         ELSE <<Str("Assertion failed")>> \o data
         IN Done(cm, tt, <<Message(ts, "kAssert", out)>>)

\* the body installed for each entry of kForwardingConsoleMethods
ForwardingBody(type, args, ts, cm, tt) ==
    Done(cm, tt, <<Message(ts, type, args)>>)

\* the body installed under methodName
BodyOf(m, args, ts, cm, tt) ==
    CASE m = "count" -> ConsoleCount(args, ts, cm, tt)
      [] m = "countReset" -> ConsoleCountReset(args, ts, cm, tt)
      [] m = "time" -> ConsoleTime(args, ts, cm, tt)
      [] m = "timeEnd" -> ConsoleTimeEnd(args, ts, cm, tt)
      [] m = "timeLog" -> ConsoleTimeLog(args, ts, cm, tt)
      [] m = "assert" -> ConsoleAssert(args, ts, cm, tt)
      [] m \in ForwardingMethods ->
            ForwardingBody(kForwardingConsoleMethods[m], args, ts, cm, tt)

----------------------------------------------------------------------------
(* Inputs *)

\* argument lists given to count and countReset
CountArgs == {<<>>, <<Undefined>>, <<Str("a")>>, <<Str("default")>>, <<BadObj>>,
              <<NaN>>, <<Symbol>>}

\* argument lists given to time, timeEnd and timeLog
TimerArgs == {<<>>, <<Str("a")>>, <<Str("a"), Num(1)>>, <<BadObj>>}

\* argument lists given to the methods of kForwardingConsoleMethods
ForwardingArgs == {<<>>, <<Str("a")>>, <<Str("a"), Num(1)>>, <<Num(1), Str("a")>>}

\* argument lists given in the specification over all methods
AnyArgs == {<<>>, <<Str("a")>>, <<BadObj, Str("a")>>}

\* methods and argument lists of the calls made around installations
InstallMethods == {"log", "count"}
InstallArgs == {<<>>, <<Str("a")>>}

\* methods and argument lists of the calls that fill and change both maps of
\* ConsoleState: every method that uses it, one passthrough method and assert
FrameMethods == CountMethods \cup TimerMethods \cup {"log", "assert"}
FrameArgs == {<<>>, <<Str("a")>>}

\* argument lists given to assert
AssertArgs ==
    {<<>>, <<Undefined>>, <<Null>>, <<Bool(FALSE)>>, <<Bool(TRUE)>>, <<Num(0)>>,
     <<Num(1)>>, <<NaN>>, <<Str("")>>, <<Str("a")>>, <<Symbol>>, <<PlainObj>>,
     <<Bool(FALSE), Str("oops")>>, <<Bool(FALSE), PlainObj>>,
     <<Bool(TRUE), Str("x")>>, <<Num(0), Str("x"), Num(1)>>,
     <<Null, Num(1), Str("x")>>}

\* values of getTimestampMs (system_clock: not monotonic)
Timestamps == {100, 103, 107}

\* what originalConsole->getProperty(methodName) can find
PropKinds == {"undefined", "plainObject", "function", "throwingFunction",
              "throwingGetter"}

NoCall == [method |-> "", args |-> <<>>, timestampMs |-> 0, body |-> "none"]

----------------------------------------------------------------------------
(* Reference counting of the RuntimeTarget *)

\* mutant of StrongCount: the call's `self` does not keep the target alive
\* (as if the body ran on a raw pointer taken from the weak reference)
StrongCountWithoutSelf(owner, ref, queue) ==
    (IF owner THEN 1 ELSE 0) + queue

\* use_count of the shared_ptr<RuntimeTarget>
StrongCount(owner, ref, queue) ==
    (IF owner THEN 1 ELSE 0) + (IF ref = "held" THEN 1 ELSE 0) + queue

\* the thread that destroys the target when a release leaves no reference
DestroyedAfter(thread, owner, ref, queue) ==
    IF destroyedOn = "none" /\ StrongCount(owner, ref, queue) = 0
    THEN thread ELSE destroyedOn

\* state of a std::function after it has been moved from
MovedFrom(b) == IF emptyAfterMove THEN "empty" ELSE b

----------------------------------------------------------------------------
(* The console objects *)

\* where the prototype chain of a plain object ends
ObjectPrototype == "Object.prototype"

\* the host function installed under name m by the n-th installation
HostFunction(n, m) == [t |-> "function", s |-> m, n |-> n, b |-> FALSE]

\* mutant of InstalledProps: only the methods of kForwardingConsoleMethods
\* are installed
InstalledPropsForwardingOnly(n) ==
    [m \in ForwardingMethods |-> HostFunction(n, m)]

\* the properties installConsoleMethod sets on the new console
InstalledProps(n) == [m \in Methods |-> HostFunction(n, m)]

\* the object created by the n-th installation
ConsoleId(n) == IF n = 1 THEN "console1" ELSE "console2"

\* a heap holding only the console the runtime started with; props are its
\* properties under names that are not installed method names (what is found
\* under an installed method's name is read at each forwarding, see PropKinds)
OrigHeap(props) == "orig" :> [proto |-> ObjectPrototype, props |-> props]

\* the properties the runtime's first console can have
OrigProps == {EmptyMap, Insert(EmptyMap, "custom", Num(7))}

\* mutant of HeapAfterInstall: the methods are set on the prototype, that is
\* on the original console, and the new console is left empty
HeapAfterInstallOntoOriginal(h, g, n) ==
    IF g \in DOMAIN h
    THEN [h EXCEPT ![g].props =
              [x \in DOMAIN h[g].props \cup Methods |->
                  IF x \in Methods THEN HostFunction(n, x) ELSE h[g].props[x]]]
         @@ (ConsoleId(n) :> [proto |-> g, props |-> EmptyMap])
    ELSE h @@ ("proto" :> [proto |-> ObjectPrototype, props |-> InstalledProps(n)])
           @@ (ConsoleId(n) :> [proto |-> "proto", props |-> EmptyMap])

\* the heap after the n-th installation found g under the global name
\* "console": the new console's prototype is g when g is an object, a fresh
\* empty object otherwise
HeapAfterInstall(h, g, n) ==
    IF g \in DOMAIN h
    THEN h @@ (ConsoleId(n) :> [proto |-> g, props |-> InstalledProps(n)])
    ELSE h @@ ("proto" :> [proto |-> ObjectPrototype, props |-> EmptyMap])
           @@ (ConsoleId(n) :> [proto |-> "proto", props |-> InstalledProps(n)])

\* reading property name of object id: own properties first, then the
\* prototype chain
RECURSIVE Get(_, _, _)
Get(h, id, name) ==
    IF id \notin DOMAIN h THEN Undefined
    ELSE IF name \in DOMAIN h[id].props THEN h[id].props[name]
         ELSE Get(h, h[id].proto, name)

\* the state of an installation that a later installation captured as its
\* original console, and of the call running inside it
NoInner ==
    [countMap |-> EmptyMap, timerTable |-> EmptyMap,
     body |-> [m \in Methods |-> "none"], originalConsole |-> "null",
     curBody |-> "none", timestampMs |-> 0, self |-> "null",
     delivered |-> <<>>, forwarded |-> <<>>, lookup |-> "none"]

\* the host function of the captured installation has returned
CallEnded(i) ==
    [i EXCEPT !.curBody = "none", !.timestampMs = 0, !.self = "null",
              !.delivered = <<>>, !.forwarded = <<>>, !.lookup = "none"]

\* the original console captured by the newest installation is itself a
\* console made by installConsoleHandler
OriginalIsInstalled == installs = 2

\* the strong reference a running call holds, if any
HeldRef == IF inner.self = "held" THEN "held" ELSE self

----------------------------------------------------------------------------
(* State machine *)

Init ==
    /\ countMap = EmptyMap
    /\ timerTable = EmptyMap
    /\ body = [m \in Methods |-> "callable"]
    /\ emptyAfterMove \in BOOLEAN
    /\ originalConsole \in {"null", "object"}
    /\ ownerHolds = TRUE
    /\ executorQueue = 0
    /\ destroyedOn = "none"
    /\ pc = "idle"
    /\ cur = NoCall
    /\ self = "null"
    /\ delivered = <<>>
    /\ forwarded = <<>>
    /\ lookup = "none"
    /\ result = "none"
    /\ calls = 0
    /\ countCalls = EmptyMap
    /\ globalConsole = ConsoleId(1)
    /\ heap = IF originalConsole = "object"
              THEN HeapAfterInstall(OrigHeap(Insert(EmptyMap, "custom", Num(7))),
                                    "orig", 1)
              ELSE HeapAfterInstall(EmptyMap, "undefined", 1)
    /\ installs = 1
    /\ inner = NoInner

\* the runtime before installConsoleHandler has run: the global console is
\* an object or is not defined
InitInstall ==
    /\ countMap = EmptyMap
    /\ timerTable = EmptyMap
    /\ body = [m \in Methods |-> "none"]
    /\ emptyAfterMove \in BOOLEAN
    /\ originalConsole = "null"
    /\ ownerHolds = TRUE
    /\ executorQueue = 0
    /\ destroyedOn = "none"
    /\ pc = "idle"
    /\ cur = NoCall
    /\ self = "null"
    /\ delivered = <<>>
    /\ forwarded = <<>>
    /\ lookup = "none"
    /\ result = "none"
    /\ calls = 0
    /\ countCalls = EmptyMap
    /\ \/ globalConsole = "undefined" /\ heap = EmptyMap
       \/ globalConsole = "orig" /\ \E props \in OrigProps : heap = OrigHeap(props)
    /\ installs = 0
    /\ inner = NoInner

\* the callback given to jsExecutor_ by installConsoleHandler runs on the JS
\* thread: it captures the global console, creates the new console with its
\* own ConsoleState and bodies, and binds it to the global name
InstallConsoleHandler ==
    /\ pc = "idle"
    /\ installs \in {0, 1}
    /\ installs' = installs + 1
    /\ heap' = HeapAfterInstall(heap, globalConsole, installs + 1)
    /\ globalConsole' = ConsoleId(installs + 1)
    /\ originalConsole' = IF globalConsole \in DOMAIN heap THEN "object" ELSE "null"
    /\ inner' = IF installs = 1
                THEN [NoInner EXCEPT !.countMap = countMap,
                                     !.timerTable = timerTable,
                                     !.body = body,
                                     !.originalConsole = originalConsole]
                ELSE inner
    /\ countMap' = EmptyMap
    /\ timerTable' = EmptyMap
    /\ body' = [m \in Methods |-> "callable"]
    /\ countCalls' = EmptyMap
    /\ UNCHANGED <<emptyAfterMove, ownerHolds, executorQueue, destroyedOn, pc,
                   cur, self, delivered, forwarded, lookup, result, calls>>

\* the script calls console[m](args): the host function starts, takes the
\* timestamp and builds the closure given to delegateExecutorSync, moving
\* `body` out of the host function's own closure
Invoke(m, args, ts, max) ==
    /\ pc = "idle"
    /\ installs > 0
    /\ calls < max
    /\ calls' = calls + 1
    /\ cur' = [method |-> m, args |-> args, timestampMs |-> ts, body |-> body[m]]
    /\ body' = [body EXCEPT ![m] = MovedFrom(body[m])]
    /\ pc' = "lock"
    /\ result' = "running"
    /\ UNCHANGED <<countMap, timerTable, emptyAfterMove, originalConsole,
                   ownerHolds, executorQueue, destroyedOn, self, delivered,
                   forwarded, lookup, countCalls>>
    /\ UNCHANGED <<globalConsole, heap, installs, inner>>

InvokeAny == \E m \in Methods, args \in AnyArgs : Invoke(m, args, 100, MaxCallsAll)

InvokeCount ==
    \E m \in CountMethods, args \in CountArgs : Invoke(m, args, 100, MaxCalls)

InvokeTimer ==
    \E m \in TimerMethods, args \in TimerArgs, ts \in Timestamps :
        Invoke(m, args, ts, MaxCalls)

InvokeForwarding ==
    \E m \in ForwardingMethods, args \in ForwardingArgs :
        Invoke(m, args, 100, MaxCalls)

InvokeAssert == \E args \in AssertArgs : Invoke("assert", args, 100, MaxCalls)

\* calls made through the global console while installations happen
InvokeInstalled ==
    \E m \in InstallMethods, args \in InstallArgs :
        Invoke(m, args, 100, MaxCallsAll)

\* calls that fill and change both maps of ConsoleState
InvokeFrame ==
    \E m \in FrameMethods, args \in FrameArgs, ts \in Timestamps :
        Invoke(m, args, ts, MaxCallsFrame)

\* mutant of Lock: the result of lock() is not tested before the body runs
LockUnchecked ==
    /\ pc = "lock"
    /\ self' = "held"
    /\ pc' = "body"
    /\ UNCHANGED <<countMap, timerTable, body, emptyAfterMove, originalConsole,
                   ownerHolds, executorQueue, destroyedOn, cur, delivered,
                   forwarded, lookup, result, calls, countCalls>>
    /\ UNCHANGED <<globalConsole, heap, installs, inner>>

\* mutant of Lock: a failed lock() still lets the body run, on a null `self`
LockFailureFallsThrough ==
    /\ pc = "lock"
    /\ self' = IF StrongCount(ownerHolds, self, executorQueue) > 0
               THEN "held" ELSE "null"
    /\ pc' = "body"
    /\ UNCHANGED <<countMap, timerTable, body, emptyAfterMove, originalConsole,
                   ownerHolds, executorQueue, destroyedOn, cur, delivered,
                   forwarded, lookup, result, calls, countCalls>>
    /\ UNCHANGED <<globalConsole, heap, installs, inner>>

\* mutant of Lock: the upgrade waits until the owner thread has run the tasks
\* queued on its executor
LockAfterOwnerDrains ==
    /\ pc = "lock"
    /\ executorQueue = 0
    /\ IF StrongCount(ownerHolds, self, executorQueue) > 0
       THEN self' = "held" /\ pc' = "body"
       ELSE self' = "null" /\ pc' = "forward"
    /\ UNCHANGED <<countMap, timerTable, body, emptyAfterMove, originalConsole,
                   ownerHolds, executorQueue, destroyedOn, cur, delivered,
                   forwarded, lookup, result, calls, countCalls>>
    /\ UNCHANGED <<globalConsole, heap, installs, inner>>

\* delegateExecutorSync: selfWeak.lock()
Lock ==
    /\ pc = "lock"
    /\ IF StrongCount(ownerHolds, self, executorQueue) > 0
       THEN self' = "held" /\ pc' = "body"
       ELSE self' = "null" /\ pc' = "forward"
    /\ UNCHANGED <<countMap, timerTable, body, emptyAfterMove, originalConsole,
                   ownerHolds, executorQueue, destroyedOn, cur, delivered,
                   forwarded, lookup, result, calls, countCalls>>
    /\ UNCHANGED <<globalConsole, heap, installs, inner>>

\* what running the closure's body does: an empty std::function raises
\* std::bad_function_call
RunBody(c, cm, tt) ==
    IF c.body = "empty" THEN Raised(cm, tt)
    ELSE BodyOf(c.method, c.args, c.timestampMs, cm, tt)

\* func(self->delegate_): the body runs inline on the JS thread.  When it
\* raises, `self` is destroyed by the unwinding, on the JS thread.
Body ==
    /\ pc = "body"
    /\ LET r == RunBody(cur, countMap, timerTable)
           l == ResolveLabel(cur.args)
       IN /\ countMap' = r.countMap
          /\ timerTable' = r.timerTable
          /\ delivered' = r.msgs
          /\ countCalls' =
                IF cur.method = "count" /\ l.ok
                THEN Insert(countCalls, l.str,
                            IF l.str \in DOMAIN countCalls
                            THEN countCalls[l.str] + 1 ELSE 1)
                ELSE IF cur.method = "countReset" /\ l.ok
                        /\ l.str \in DOMAIN countCalls
                     THEN Insert(countCalls, l.str, 0)
                     ELSE countCalls
          /\ IF r.threw
             THEN /\ self' = "droppedOnJs"
                  /\ destroyedOn' =
                        DestroyedAfter("js", ownerHolds, "droppedOnJs", executorQueue)
                  /\ result' = "threw"
                  /\ pc' = "done"
             ELSE /\ pc' = "handoff"
                  /\ UNCHANGED <<self, destroyedOn, result>>
    /\ UNCHANGED <<body, emptyAfterMove, originalConsole, ownerHolds,
                   executorQueue, cur, forwarded, lookup, calls>>
    /\ UNCHANGED <<globalConsole, heap, installs, inner>>

\* selfExecutor([self = std::move(self)](auto&) { (void)self; })
Handoff ==
    /\ pc = "handoff"
    /\ executorQueue' = executorQueue + 1
    /\ self' = "handed"
    /\ pc' = "forward"
    /\ UNCHANGED <<countMap, timerTable, body, emptyAfterMove, originalConsole,
                   ownerHolds, destroyedOn, cur, delivered, forwarded, lookup,
                   result, calls, countCalls>>
    /\ UNCHANGED <<globalConsole, heap, installs, inner>>

\* mutant of ForwardOutcome: the property is called without isFunction being
\* tested, so calling an object that is no function raises
ForwardOutcomeUnchecked(k, m, args) ==
    [forwarded |-> IF k \in {"function", "throwingFunction"}
                   THEN <<[method |-> m, args |-> args,
                           thisVal |-> "originalConsole"]>>
                   ELSE <<>>,
     result |-> IF k \in {"throwingFunction", "throwingGetter", "plainObject"}
                THEN "threw" ELSE "returned"]

\* the forwarding step for a property of kind k
ForwardOutcome(k, m, args) ==
    [forwarded |-> IF k \in {"function", "throwingFunction"}
                   THEN <<[method |-> m, args |-> args,
                           thisVal |-> "originalConsole"]>>
                   ELSE <<>>,
     result |-> IF k \in {"throwingFunction", "throwingGetter"}
                THEN "threw" ELSE "returned"]

\* forwardToOriginalConsole, after innerFn has returned
Forward ==
    /\ pc = "forward"
    /\ ~OriginalIsInstalled
    /\ IF originalConsole = "object"
       THEN \E k \in PropKinds :
               /\ lookup' = k
               /\ forwarded' = ForwardOutcome(k, cur.method, cur.args).forwarded
               /\ result' = ForwardOutcome(k, cur.method, cur.args).result
       ELSE /\ result' = "returned"
            /\ UNCHANGED <<lookup, forwarded>>
    /\ pc' = "done"
    /\ UNCHANGED <<countMap, timerTable, body, emptyAfterMove, originalConsole,
                   ownerHolds, executorQueue, destroyedOn, cur, self, delivered,
                   calls, countCalls>>
    /\ UNCHANGED <<globalConsole, heap, installs, inner>>

\* forwardToOriginalConsole when the captured original is an installed
\* console: its own property is the host function of the earlier installation,
\* which is called with the same arguments; that host function takes its
\* timestamp and moves its `body` into the closure for delegateExecutorSync
ForwardToInstalled ==
    /\ pc = "forward"
    /\ OriginalIsInstalled
    /\ lookup' = "function"
    /\ forwarded' = ForwardOutcome("function", cur.method, cur.args).forwarded
    /\ \E ts \in Timestamps :
          inner' = [inner EXCEPT
                       !.curBody = inner.body[cur.method],
                       !.body[cur.method] = MovedFrom(inner.body[cur.method]),
                       !.timestampMs = ts]
    /\ pc' = "innerLock"
    /\ UNCHANGED <<countMap, timerTable, body, emptyAfterMove, originalConsole,
                   ownerHolds, executorQueue, destroyedOn, cur, self, delivered,
                   result, calls, countCalls, globalConsole, heap, installs>>

\* delegateExecutorSync of the earlier installation: selfWeak.lock()
InnerLock ==
    /\ pc = "innerLock"
    /\ IF StrongCount(ownerHolds, inner.self, executorQueue) > 0
       THEN inner' = [inner EXCEPT !.self = "held"] /\ pc' = "innerBody"
       ELSE inner' = [inner EXCEPT !.self = "null"] /\ pc' = "innerForward"
    /\ UNCHANGED <<countMap, timerTable, body, emptyAfterMove, originalConsole,
                   ownerHolds, executorQueue, destroyedOn, cur, self, delivered,
                   forwarded, lookup, result, calls, countCalls, globalConsole,
                   heap, installs>>

\* the body of the earlier installation runs on its own ConsoleState; when it
\* raises, the error passes through both host functions to the script
InnerBody ==
    /\ pc = "innerBody"
    /\ LET r == RunBody([method |-> cur.method, args |-> cur.args,
                         timestampMs |-> inner.timestampMs,
                         body |-> inner.curBody],
                        inner.countMap, inner.timerTable)
       IN IF r.threw
          THEN /\ inner' = [inner EXCEPT !.self = "droppedOnJs"]
               /\ destroyedOn' =
                     DestroyedAfter("js", ownerHolds, "droppedOnJs", executorQueue)
               /\ result' = "threw"
               /\ pc' = "done"
          ELSE /\ inner' = [inner EXCEPT !.countMap = r.countMap,
                                         !.timerTable = r.timerTable,
                                         !.delivered = r.msgs]
               /\ pc' = "innerHandoff"
               /\ UNCHANGED <<destroyedOn, result>>
    /\ UNCHANGED <<countMap, timerTable, body, emptyAfterMove, originalConsole,
                   ownerHolds, executorQueue, cur, self, delivered, forwarded,
                   lookup, calls, countCalls, globalConsole, heap, installs>>

\* selfExecutor of the earlier installation receives its `self`
InnerHandoff ==
    /\ pc = "innerHandoff"
    /\ executorQueue' = executorQueue + 1
    /\ inner' = [inner EXCEPT !.self = "handed"]
    /\ pc' = "innerForward"
    /\ UNCHANGED <<countMap, timerTable, body, emptyAfterMove, originalConsole,
                   ownerHolds, destroyedOn, cur, self, delivered, forwarded,
                   lookup, result, calls, countCalls, globalConsole, heap,
                   installs>>

\* forwardToOriginalConsole of the earlier installation
InnerForward ==
    /\ pc = "innerForward"
    /\ IF inner.originalConsole = "object"
       THEN \E k \in PropKinds :
               /\ inner' = [inner EXCEPT
                               !.lookup = k,
                               !.forwarded =
                                   ForwardOutcome(k, cur.method, cur.args).forwarded]
               /\ result' = ForwardOutcome(k, cur.method, cur.args).result
       ELSE /\ result' = "returned"
            /\ UNCHANGED inner
    /\ pc' = "done"
    /\ UNCHANGED <<countMap, timerTable, body, emptyAfterMove, originalConsole,
                   ownerHolds, executorQueue, destroyedOn, cur, self, delivered,
                   forwarded, lookup, calls, countCalls, globalConsole, heap,
                   installs>>

\* the host function returns (or its error reaches the script)
Return ==
    /\ pc = "done"
    /\ pc' = "idle"
    /\ cur' = NoCall
    /\ self' = "null"
    /\ delivered' = <<>>
    /\ forwarded' = <<>>
    /\ lookup' = "none"
    /\ result' = "none"
    /\ UNCHANGED <<countMap, timerTable, body, emptyAfterMove, originalConsole,
                   ownerHolds, executorQueue, destroyedOn, calls, countCalls>>
    /\ inner' = CallEnded(inner)
    /\ UNCHANGED <<globalConsole, heap, installs>>

\* inspector thread: the owner drops its reference to the RuntimeTarget
OwnerRelease ==
    /\ ownerHolds
    /\ ownerHolds' = FALSE
    /\ destroyedOn' = DestroyedAfter("inspector", FALSE, HeldRef, executorQueue)
    /\ UNCHANGED <<countMap, timerTable, body, emptyAfterMove, originalConsole,
                   executorQueue, pc, cur, self, delivered, forwarded, lookup,
                   result, calls, countCalls>>
    /\ UNCHANGED <<globalConsole, heap, installs, inner>>

\* inspector thread: a task posted to selfExecutor runs and lets go of `self`
OwnerRunTask ==
    /\ executorQueue > 0
    /\ executorQueue' = executorQueue - 1
    /\ destroyedOn' =
          DestroyedAfter("inspector", ownerHolds, HeldRef, executorQueue - 1)
    /\ UNCHANGED <<countMap, timerTable, body, emptyAfterMove, originalConsole,
                   ownerHolds, pc, cur, self, delivered, forwarded, lookup,
                   result, calls, countCalls>>
    /\ UNCHANGED <<globalConsole, heap, installs, inner>>

Next ==
    \/ InvokeAny
    \/ Lock
    \/ Body
    \/ Handoff
    \/ Forward
    \/ Return
    \/ OwnerRelease
    \/ OwnerRunTask

NextCount ==
    \/ InvokeCount
    \/ Lock
    \/ Body
    \/ Handoff
    \/ Forward
    \/ Return
    \/ OwnerRelease
    \/ OwnerRunTask

NextTimer ==
    \/ InvokeTimer
    \/ Lock
    \/ Body
    \/ Handoff
    \/ Forward
    \/ Return
    \/ OwnerRelease
    \/ OwnerRunTask

NextForwarding ==
    \/ InvokeForwarding
    \/ Lock
    \/ Body
    \/ Handoff
    \/ Forward
    \/ Return
    \/ OwnerRelease
    \/ OwnerRunTask

NextAssert ==
    \/ InvokeAssert
    \/ Lock
    \/ Body
    \/ Handoff
    \/ Forward
    \/ Return
    \/ OwnerRelease
    \/ OwnerRunTask

NextFrame ==
    \/ InvokeFrame
    \/ Lock
    \/ Body
    \/ Handoff
    \/ Forward
    \/ Return
    \/ OwnerRelease
    \/ OwnerRunTask

NextInstall ==
    \/ InstallConsoleHandler
    \/ InvokeInstalled
    \/ Lock
    \/ Body
    \/ Handoff
    \/ Forward
    \/ ForwardToInstalled
    \/ InnerLock
    \/ InnerBody
    \/ InnerHandoff
    \/ InnerForward
    \/ Return
    \/ OwnerRelease
    \/ OwnerRunTask

\* calls to any installed method
Spec == Init /\ [][Next]_vars

\* calls to count and countReset
SpecCount == Init /\ [][NextCount]_vars

\* calls to time, timeEnd and timeLog
SpecTimer == Init /\ [][NextTimer]_vars

\* calls to the methods of kForwardingConsoleMethods
SpecForwarding == Init /\ [][NextForwarding]_vars

\* calls to assert
SpecAssert == Init /\ [][NextAssert]_vars

\* calls to the methods using ConsoleState, to log and to assert
SpecFrame == Init /\ [][NextFrame]_vars

\* installConsoleHandler run once or twice, and calls to log and count
SpecInstall == InitInstall /\ [][NextInstall]_vars

----------------------------------------------------------------------------
(* Vocabulary of the claims *)

\* the label a call names: "default" when argument 0 is absent or undefined
LabelOf(args) ==
    IF args = <<>> \/ args[1] = Undefined THEN "default" ELSE toString(args[1]).str

\* the label can be computed (string conversion of argument 0 does not raise)
HasLabel(args) == args = <<>> \/ args[1] = Undefined \/ toString(args[1]).ok

Warning(ts, text) == <<Message(ts, "kWarning", <<Str(text)>>)>>

\* the call the original console's method must receive
SameCall(c) == <<[method |-> c.method, args |-> c.args, thisVal |-> "originalConsole"]>>

\* the step in which the body of a call to m runs, its label being computable
BodyStep(m) ==
    pc = "body" /\ pc' # "body" /\ cur.method = m /\ HasLabel(cur.args)

----------------------------------------------------------------------------
(* C1 *)

\* C1: the k-th call to count(L) (k counted from 1, and again from 1 after a
\* countReset(L)) delivers exactly one kCount message whose single argument
\* is "<L>: <k>"; no argument or undefined means "default".
C1_KthCountCall ==
    (pc \in {"handoff", "done"} /\ cur.method = "count" /\ self # "null"
        /\ HasLabel(cur.args))
    => LET L == LabelOf(cur.args) IN
       delivered = <<Message(cur.timestampMs, "kCount",
                             <<Str(L \o ": " \o ToString(countCalls[L]))>>)>>

----------------------------------------------------------------------------
(* C2 *)

\* C2 as stated: a call whose upgrade fails because the owner is already
\* destroyed delivers no message, still calls the original console's method
\* with the call's arguments, and returns normally.
C2_DestroyedOwnerReturnsNormally ==
    (pc = "done" /\ self = "null")
    => /\ delivered = <<>>
       /\ (originalConsole = "object" /\ lookup \in {"function", "throwingFunction"})
            => forwarded = SameCall(cur)
       /\ result = "returned"

\* C2 amended: once the owner is destroyed the upgrade fails; such a call
\* delivers no message, calls the original console's method exactly when one
\* was captured and the property is a function, with the call's arguments, and
\* returns normally unless the original console's getter or method raises.
C2_DestroyedOwnerCall ==
    /\ [](pc = "done" /\ self = "null"
            => /\ delivered = <<>>
               /\ forwarded = IF originalConsole = "object"
                                 /\ lookup \in {"function", "throwingFunction"}
                              THEN SameCall(cur) ELSE <<>>
               /\ (result = "threw"
                     <=> lookup \in {"throwingFunction", "throwingGetter"})
               /\ result \in {"threw", "returned"})
    /\ [][(pc = "lock" /\ destroyedOn # "none" /\ pc' # "lock")
            => (self' = "null" /\ pc' = "forward" /\ delivered' = <<>>)]_vars

\* C2 witness: the owner is gone, the call delivered nothing, forwarded to the
\* original console and returned
C2_Witness ==
    /\ pc = "done" /\ self = "null" /\ destroyedOn # "none"
    /\ delivered = <<>> /\ forwarded = SameCall(cur) /\ result = "returned"

----------------------------------------------------------------------------
(* C3 *)

\* C3: whenever the upgrade succeeded, the strong reference is handed to the
\* owner thread's executor, however the body finishes, so that the target is
\* never released or destroyed on the JS thread.
C3_ReleasedOnOwnerThread ==
    /\ (pc = "done" /\ self # "null") => self = "handed"
    /\ destroyedOn # "js"

----------------------------------------------------------------------------
(* C4 *)

\* C4: from a successful upgrade until the inline delegate call has returned
\* (and the reference is handed off) the owner is alive, in every
\* interleaving with the inspector thread.
C4_OwnerAliveDuringBody ==
    /\ pc \in {"body", "handoff"} => (self = "held" /\ destroyedOn = "none")
    /\ (pc = "handoff" /\ delivered # <<>>) => destroyedOn = "none"

\* C4 witness: the body is running while the inspector thread has already
\* dropped every other reference
C4_Witness ==
    /\ pc = "body" /\ self = "held"
    /\ ~ownerHolds /\ executorQueue = 0 /\ destroyedOn = "none"

----------------------------------------------------------------------------
(* C5 *)

\* C5 as stated: the forwarding step never makes the call fail, whatever the
\* lookup finds and whatever the original method does.
C5_ForwardingNeverFails == [][pc = "forward" => result' # "threw"]_vars

\* C5 amended: the forwarding step makes the call fail only when the original
\* console's getter or method itself raises; a missing or non-callable
\* property, or no original console, skips forwarding and the call returns
\* normally.
C5_ForwardingFailsOnlyByOriginal ==
    [][(pc = "forward" /\ pc' = "done")
         => /\ (result' = "threw"
                  <=> lookup' \in {"throwingFunction", "throwingGetter"})
            /\ (lookup' \in {"none", "undefined", "plainObject"}
                  => (result' = "returned" /\ forwarded' = <<>>))]_vars

\* C5 witness: the property was an object that is not a function and the
\* call returned normally
C5_Witness ==
    /\ pc = "done" /\ lookup = "plainObject" /\ result = "returned"
    /\ forwarded = <<>>

----------------------------------------------------------------------------
(* C6 *)

\* C6: a call to one of the thirteen forwarding methods made while the owner
\* is alive delivers exactly one message with the call's arguments in order
\* and the method's kind, and then calls the original console's method (when
\* captured and callable) once with the same arguments and receiver.
C6_ForwardingMethodCall ==
    (pc = "done" /\ cur.method \in ForwardingMethods /\ self # "null")
    => /\ delivered = <<Message(cur.timestampMs,
                                kForwardingConsoleMethods[cur.method], cur.args)>>
       /\ (originalConsole = "object" /\ lookup \in {"function", "throwingFunction"})
            => forwarded = SameCall(cur)

----------------------------------------------------------------------------
(* C7 *)

\* C7: timeEnd(L) on a timer started at t0 delivers one kTimeEnd message
\* "<L>: <t1-t0> ms" and removes L; timeEnd(L) on an absent L (a second
\* timeEnd) delivers the Warning "Timer '<L>' does not exist"; time(L) on an
\* absent L starts a timer at the call's timestamp.
C7_TimeThenTimeEnd ==
    [][/\ BodyStep("timeEnd") =>
            LET L == LabelOf(cur.args) IN
            IF L \in DOMAIN timerTable
            THEN /\ delivered' =
                      <<Message(cur.timestampMs, "kTimeEnd",
                                <<Str(L \o ": "
                                      \o DoubleToString(cur.timestampMs - timerTable[L])
                                      \o " ms")>>)>>
                 /\ L \notin DOMAIN timerTable'
            ELSE delivered' =
                    Warning(cur.timestampMs, "Timer '" \o L \o "' does not exist")
       /\ BodyStep("time") =>
            LET L == LabelOf(cur.args) IN
            L \notin DOMAIN timerTable
            => (L \in DOMAIN timerTable' /\ timerTable'[L] = cur.timestampMs)
      ]_vars

----------------------------------------------------------------------------
(* C8 *)

\* C8: timerTable entries are created only by time and only for an absent
\* label; time(L) on a present L delivers one Warning "Timer '<L>' already
\* exists" and leaves the table unchanged.
C8_TimeOnExistingTimer ==
    [][/\ BodyStep("time") =>
            LET L == LabelOf(cur.args) IN
            L \in DOMAIN timerTable
            => /\ delivered' =
                    Warning(cur.timestampMs, "Timer '" \o L \o "' already exists")
               /\ timerTable' = timerTable
       /\ \A L \in DOMAIN timerTable' \ DOMAIN timerTable :
            BodyStep("time") /\ L = LabelOf(cur.args)
      ]_vars

----------------------------------------------------------------------------
(* C9 *)

\* C9: timeLog(L) never changes the timer table; on a present L it delivers
\* one kLog message "<L>: <elapsed> ms" followed by the arguments after the
\* label, on an absent L the Warning "Timer '<L>' does not exist".
C9_TimeLogKeepsTimer ==
    [][BodyStep("timeLog") =>
            LET L == LabelOf(cur.args) IN
            /\ timerTable' = timerTable
            /\ delivered' =
                 IF L \in DOMAIN timerTable
                 THEN <<Message(cur.timestampMs, "kLog",
                                <<Str(L \o ": "
                                      \o DoubleToString(cur.timestampMs - timerTable[L])
                                      \o " ms")>>
                                \o SubSeq(cur.args, 2, Len(cur.args)))>>
                 ELSE Warning(cur.timestampMs, "Timer '" \o L \o "' does not exist")
      ]_vars

----------------------------------------------------------------------------
(* C10 *)

\* C10: countMap entries are created only by count; countReset(L) on an
\* absent L delivers one Warning "Count for '<L>' does not exist" and creates
\* no entry; on a present L it delivers nothing and sets the count to 0, and
\* the next count(L) then emits "<L>: 1".
C10_CountReset ==
    [][/\ BodyStep("countReset") =>
            LET L == LabelOf(cur.args) IN
            IF L \notin DOMAIN countMap
            THEN /\ delivered' = Warning(cur.timestampMs,
                                         "Count for '" \o L \o "' does not exist")
                 /\ countMap' = countMap
            ELSE /\ delivered' = <<>>
                 /\ countMap' = [countMap EXCEPT ![L] = 0]
       /\ BodyStep("count") =>
            LET L == LabelOf(cur.args) IN
            (L \in DOMAIN countMap /\ countMap[L] = 0)
            => delivered' = <<Message(cur.timestampMs, "kCount", <<Str(L \o ": 1")>>)>>
       /\ \A L \in DOMAIN countMap' \ DOMAIN countMap :
            BodyStep("count") /\ L = LabelOf(cur.args)
      ]_vars

----------------------------------------------------------------------------
(* C11 *)

\* the values the scripting language treats as false
Falsy == {Undefined, Null, Bool(FALSE), Num(0), NaN, Str("")}

\* the body of an Assert message built from the arguments after the first
AssertionBody(rest) ==
    IF rest = <<>> THEN <<Str("Assertion failed")>>
    ELSE IF rest[1].t = "string"
         THEN <<Str("Assertion failed: " \o rest[1].s)>> \o SubSeq(rest, 2, Len(rest))
         ELSE <<Str("Assertion failed")>> \o rest

\* C11: assert delivers no message when argument 0 is truthy; otherwise it
\* delivers exactly one kAssert message whose body is built from the
\* arguments at index >= 1: ["Assertion failed"] if there are none, the first
\* replaced by "Assertion failed: " + it if it is a string, else "Assertion
\* failed" prepended.
C11_Assert ==
    (pc \in {"handoff", "done"} /\ cur.method = "assert" /\ self # "null")
    => delivered =
         IF cur.args # <<>> /\ cur.args[1] \notin Falsy THEN <<>>
         ELSE <<Message(cur.timestampMs, "kAssert",
                        AssertionBody(SubSeq(cur.args, 2, Len(cur.args))))>>

----------------------------------------------------------------------------
(* C12 *)

\* the kind a method's own message has ("none": the method has no message of
\* its own)
NominalKind(m) ==
    CASE m \in ForwardingMethods -> kForwardingConsoleMethods[m]
      [] m = "count" -> "kCount"
      [] m = "timeEnd" -> "kTimeEnd"
      [] m = "timeLog" -> "kLog"
      [] m = "assert" -> "kAssert"
      [] m \in {"time", "countReset"} -> "none"

\* every message of the current call has the method's nominal kind, or is a
\* Warning delivered by one of the methods in warners
KindsWithin(warners) ==
    \A i \in 1..Len(delivered) :
        \/ delivered[i].kind = NominalKind(cur.method)
        \/ cur.method \in warners /\ delivered[i].kind = "kWarning"

\* C12 as stated: only count, time, timeLog and assert may deliver a Warning
\* instead of their nominal kind.
C12_WarningOnlyFromCountTimeTimeLogAssert ==
    KindsWithin({"count", "time", "timeLog", "assert"})

\* C12 amended: every delivered message has its method's nominal kind, except
\* that countReset, time, timeEnd and timeLog deliver a Warning when misused
\* (countReset and time deliver nothing else); count and assert never deliver
\* a Warning.
C12_WarningOnlyFromCountResetAndTimers ==
    KindsWithin({"countReset", "time", "timeEnd", "timeLog"})

\* C12 witness: timeEnd on a label without timer delivered a Warning
C12_Witness ==
    /\ pc = "handoff" /\ cur.method = "timeEnd"
    /\ Len(delivered) = 1 /\ delivered[1].kind = "kWarning"

----------------------------------------------------------------------------
(* C16 *)

\* C16: every call to an installed method made while the owner is alive runs
\* the method's body exactly as the first call does (the step that leaves
\* "body" produces what the method's body produces from ConsoleState), and no
\* call leaves an installed method without its body.
C16_BodyRunsOnEveryCall ==
    /\ [](\A m \in Methods : body[m] = "callable")
    /\ [][(pc = "body" /\ pc' # "body")
          => LET r == BodyOf(cur.method, cur.args, cur.timestampMs,
                             countMap, timerTable)
             IN /\ delivered' = r.msgs
                /\ countMap' = r.countMap
                /\ timerTable' = r.timerTable
                /\ (pc' = "handoff") = ~r.threw]_vars

----------------------------------------------------------------------------
(* C17 *)

\* C17: within a call whose upgrade succeeds the events are ordered: the
\* timestamp is taken before the delegate receives a message (which carries
\* it), the handoff task is submitted only after the body has completed, the
\* original console's method is invoked only after the handoff, and the call
\* submits exactly one handoff task before it returns.
C17_EventOrder ==
    [][/\ (delivered' # delivered /\ delivered' # <<>>)
            => /\ pc = "body" /\ self = "held" /\ forwarded = <<>>
               /\ \A i \in 1..Len(delivered') :
                      delivered'[i].timestampMs = cur.timestampMs
       /\ executorQueue' > executorQueue
            => /\ pc = "handoff" /\ self = "held" /\ forwarded = <<>>
               /\ executorQueue' = executorQueue + 1
       /\ (forwarded' # forwarded /\ forwarded' # <<>>)
            => pc = "forward" /\ self \in {"handed", "null"}
       /\ (pc = "done" /\ pc' = "idle" /\ self # "null")
            => self = "handed"]_vars

----------------------------------------------------------------------------
(* C19 *)

\* C19: a call whose weak-reference upgrade fails leaves countMap and
\* timerTable exactly as they were and delivers nothing; the upgrade fails
\* only once the owner has been destroyed, a destroyed owner stays destroyed,
\* and from then on no body runs and ConsoleState never changes again.
C19_FailedUpgradeLeavesConsoleState ==
    /\ []((self = "null" /\ pc \in {"forward", "done"})
            => destroyedOn # "none" /\ delivered = <<>>)
    /\ [](destroyedOn # "none" => pc \notin {"body", "handoff"})
    /\ [][/\ (pc = "lock" /\ pc' = "forward")
               => destroyedOn # "none" /\ UNCHANGED <<countMap, timerTable>>
          /\ destroyedOn # "none"
               => /\ destroyedOn' = destroyedOn
                  /\ UNCHANGED <<countMap, timerTable>>]_vars

\* C19 witness: a counter exists and a later count call has skipped its body
\* because the owner was gone
C19_Witness ==
    /\ pc = "done" /\ self = "null" /\ cur.method = "count"
    /\ cur.args = <<Str("a")>>
    /\ "a" \in DOMAIN countMap

----------------------------------------------------------------------------
(* C20 *)

\* two maps agree on every key other than those in keys
SameExcept(old, new, keys) ==
    \A k \in (DOMAIN old \cup DOMAIN new) \ keys :
        k \in DOMAIN old /\ k \in DOMAIN new /\ old[k] = new[k]

\* the label the current call resolves, if it resolves one
ResolvedLabels == IF HasLabel(cur.args) THEN {LabelOf(cur.args)} ELSE {}

\* C20: the thirteen passthrough methods and assert never change countMap or
\* timerTable; count and countReset never change timerTable and change at
\* most the countMap entry of the resolved label; time, timeEnd and timeLog
\* never change countMap and change at most the timerTable entry of the
\* resolved label.
C20_MethodsChangeOnlyTheirPart ==
    [][/\ cur.method \in ForwardingMethods \cup {"assert"}
            => UNCHANGED <<countMap, timerTable>>
       /\ cur.method \in CountMethods
            => /\ timerTable' = timerTable
               /\ SameExcept(countMap, countMap', ResolvedLabels)
       /\ cur.method \in TimerMethods
            => /\ countMap' = countMap
               /\ SameExcept(timerTable, timerTable', ResolvedLabels)
       /\ cur = NoCall
            => UNCHANGED <<countMap, timerTable>>]_vars

\* C20 witness: countReset has set the counter of "a" to zero while a timer
\* exists, and both are as they were apart from that counter
C20_Witness ==
    /\ pc = "handoff" /\ cur.method = "countReset" /\ cur.args = <<Str("a")>>
    /\ delivered = <<>>
    /\ countMap = Insert(EmptyMap, "a", 0)
    /\ DOMAIN timerTable = {"default"}

----------------------------------------------------------------------------
(* C15 *)

\* the steps of the script-execution thread inside a call
JsStep ==
    \/ Lock \/ Body \/ Handoff \/ Forward
    \/ ForwardToInstalled \/ InnerLock \/ InnerBody \/ InnerHandoff \/ InnerForward
    \/ Return

\* position of a call: every step of the call moves it forward
Rank(p) ==
    CASE p = "lock" -> 1
      [] p = "body" -> 2
      [] p = "handoff" -> 3
      [] p = "forward" -> 4
      [] p = "innerLock" -> 5
      [] p = "innerBody" -> 6
      [] p = "innerHandoff" -> 7
      [] p = "innerForward" -> 8
      [] p = "done" -> 9
      [] p = "idle" -> 10

\* C15: a call that has started never waits on the owner thread: in every
\* state of the call the script thread's next step can be taken as it is,
\* whatever the owner thread has or has not done, every such step moves the
\* call forward, so the call completes in script-thread steps alone; and the
\* only thing a step of the call does to the owner thread is to add the
\* handoff task to its queue.
C15_NeverWaitsOnOwner ==
    /\ [](pc # "idle" => ENABLED JsStep)
    /\ [][(pc # "idle" /\ pc' # pc)
            => /\ Rank(pc') > Rank(pc)
               /\ ownerHolds' = ownerHolds
               /\ \/ executorQueue' = executorQueue
                  \/ pc = "handoff" /\ executorQueue' = executorQueue + 1]_vars

\* C15 witness: a call has completed while its handoff task, and that of the
\* call before it, are still waiting on the owner's executor
C15_Witness ==
    pc = "done" /\ self = "handed" /\ executorQueue = 2 /\ result = "returned"

----------------------------------------------------------------------------
(* C14 *)

\* the own properties of the object bound to the global name "console"
OwnProps == heap[globalConsole].props

\* C14 as stated: after installation the global console's own installed
\* methods are exactly seventeen.
C14_SeventeenMethods ==
    installs > 0 => Cardinality(DOMAIN OwnProps) = 17

\* C14 amended: after installation the global console's own properties are
\* exactly the nineteen installed methods, the thirteen passthrough methods
\* plus count, countReset, time, timeEnd, timeLog and assert, each bound to
\* the host function that the newest installation made for that name.
C14_NineteenMethods ==
    installs > 0 =>
        /\ DOMAIN OwnProps =
              ForwardingMethods
                  \cup {"count", "countReset", "time", "timeEnd", "timeLog", "assert"}
        /\ Cardinality(ForwardingMethods) = 13
        /\ Cardinality(DOMAIN OwnProps) = 19
        /\ \A m \in DOMAIN OwnProps : OwnProps[m] = HostFunction(installs, m)

\* C14 witness: the second installation has bound its console, whose assert
\* is its own host function
C14_Witness ==
    /\ installs = 2
    /\ "assert" \in DOMAIN OwnProps
    /\ Get(heap, globalConsole, "assert") = HostFunction(2, "assert")

----------------------------------------------------------------------------
(* C18 *)

\* names read through the console: the installed ones, one the original may
\* have, and one no object has
PropNames == Methods \cup {"custom", "other"}

\* C18: installation leaves every object that existed as it was; when the
\* global console was an object it becomes the prototype of the new console,
\* through which every property not named like an installed method reads as
\* before; when it was not an object the new console's prototype is a fresh
\* object without properties, no original is captured, and no call is ever
\* forwarded.
C18_InstallationOnlyAdds ==
    /\ [][installs' # installs
            => /\ \A id \in DOMAIN heap :
                      id \in DOMAIN heap' /\ heap'[id] = heap[id]
               /\ globalConsole \in DOMAIN heap
                    => /\ heap'[globalConsole'].proto = globalConsole
                       /\ originalConsole' = "object"
                       /\ \A name \in PropNames \ Methods :
                              Get(heap', globalConsole', name)
                                  = Get(heap, globalConsole, name)
               /\ globalConsole \notin DOMAIN heap
                    => /\ heap'[globalConsole'].proto \notin DOMAIN heap
                       /\ heap'[heap'[globalConsole'].proto].props = EmptyMap
                       /\ originalConsole' = "null"]_vars
    /\ [](originalConsole = "null" => forwarded = <<>> /\ lookup = "none")
    /\ [](inner.originalConsole = "null" => inner.forwarded = <<>>)

\* C18 witness: a call through the installed console has been forwarded to the
\* original, whose own property is read through the new console
C18_Witness ==
    /\ installs = 1 /\ pc = "done" /\ forwarded # <<>>
    /\ "custom" \notin DOMAIN OwnProps
    /\ Get(heap, globalConsole, "custom") = Num(7)

----------------------------------------------------------------------------
(* C13 *)

\* C13: after the second installation a call made while the owner is alive
\* has, when it ends, run the second installation's body (one message of the
\* method's kind), then the first installation's method with the same
\* arguments, which ran its own body, then the innermost original's method
\* once with the same arguments when there is one; and the innermost
\* original's properties are read from the global console two prototype
\* links away.
C13_InstalledTwice ==
    /\ (installs = 2 /\ pc = "done" /\ destroyedOn = "none")
          => /\ self = "handed"
             /\ Len(delivered) = 1
             /\ delivered[1].kind = NominalKind(cur.method)
             /\ forwarded = SameCall(cur)
             /\ inner.self = "handed"
             /\ Len(inner.delivered) = 1
             /\ inner.delivered[1].kind = NominalKind(cur.method)
             /\ inner.originalConsole = "object"
                  => /\ inner.lookup # "none"
                     /\ inner.lookup \in {"function", "throwingFunction"}
                          => inner.forwarded = SameCall(cur)
    /\ installs = 2
          => /\ heap[globalConsole].proto = ConsoleId(1)
             /\ inner.originalConsole = "object"
                  => /\ heap[heap[globalConsole].proto].proto = "orig"
                     /\ \A name \in DOMAIN heap["orig"].props :
                            Get(heap, globalConsole, name) = heap["orig"].props[name]

=============================================================================
